---- MODULE Spec2Model ----
(***************************************************************************)
(* Model of the Splunk REST search client (src/search.go).                 *)
(*                                                                         *)
(* Connection.Search creates a search job, polls its status, fetches its   *)
(* rows and, when the fetch is as long as the max-count, fans out into     *)
(* PARTITION_COUNT goroutines that each run Search on a sub-window and     *)
(* store their outcome in two shared maps; the parent joins on a WaitGroup *)
(* and concatenates by ranging over the map.                               *)
(*                                                                         *)
(* Invocation 0 is the Search the caller made; invocation idx + 1 is the   *)
(* sub-search of partition idx, which runs in a goroutine of its own.  A   *)
(* sub-search that partitions again returns what lines 234-244 can return  *)
(* for its own fan-out (NestedOutcomes).                                   *)
(*                                                                         *)
(* Time is counted in ticks, TicksPerSecond to the second, so that windows *)
(* that are no whole number of seconds exist.  time.Time.Sub saturates at  *)
(* about 292 years; the windows here stay far below that.                  *)
(***************************************************************************)
EXTENDS Integers, Sequences, FiniteSets, TLC

VARIABLES
    opts,               \* searchOptions of each invocation
    pc,                 \* where each invocation stands
    sid,                \* the job identifier SearchJobCreate returned
    results,            \* the rows an invocation returned (or fetched)
    err,                \* the error an invocation returned
    partitionedResults, \* map[int][]row of the fan-out
    partitionedErr,     \* map[int]error of the fan-out
    wg,                 \* sync.WaitGroup counter of the fan-out
    faults,             \* failures the server has injected so far
    trace,              \* requests invocation 0 sent, with what came back
    calls,              \* the handler calls SearchAndExec has made
    data,               \* the rows the server holds, per tick of their timestamp
    stack,              \* the calls in progress while a request is signed and sent
    wire                \* the requests that went out, with their Authorization header

vars == <<opts, pc, sid, results, err, partitionedResults, partitionedErr, wg, faults, trace,
          calls, data, stack, wire>>

----------------------------------------------------------------------------
(* Program constants *)

DEFAULT_MAX_COUNT == 10000
PARTITION_COUNT == 5
StatusOK == 200
StatusCreated == 201

(* Bounds of the model *)

TicksPerSecond == 2     \* clock resolution of the model
MaxWindow == 11         \* longest parent window, in seconds
MaxBack == 7            \* how far latest may lie before earliest, in seconds
MaxCountOpt == 2        \* largest MaxCount option tried
MaxMsgs == 2            \* longest diagnostic list of a job status
MaxPolls == 2           \* polls of the job that SpecJob follows
MaxRows == 3            \* most rows a job holds (or as many as the max-count)
MaxSubPolls == 1        \* polls a sub-search makes
MaxFaults == 2          \* requests, jobs and nested fan-outs the server lets fail
MaxDataSeconds == 2     \* the seconds over which the server's rows are spread
MaxPerTick == 2         \* most rows of one timestamp
MaxRecWindow == 3       \* longest window of a recursive search, in seconds
MaxStack == 7           \* the calls the stack of a goroutine has room for

Root == 0
Partitions == 0 .. (PARTITION_COUNT - 1)
Children == 1 .. PARTITION_COUNT
Invocations == {Root} \cup Children

----------------------------------------------------------------------------
(* Values *)

\* A Go error: nil, or a message (a sequence of string pieces).  origin is
\* the invocation whose Search first returned it (-1 while it is nobody's).
NilErr == [nil |-> TRUE, origin |-> -1, text |-> <<>>]
Errorf(t) == [nil |-> FALSE, origin |-> -1, text |-> t]
From(i, e) == IF e.nil \/ e.origin # -1 THEN e ELSE [e EXCEPT !.origin = i]

NoRows == <<>>
\* A server that holds no rows
NoData == <<>>
\* The rows the job of invocation i holds: row k of job i is <<i, k>>.
Rows(i, n) == [k \in 1 .. n |-> <<i, k>>]

NoOpts == [MaxCount |-> 0, UseEarliestTime |-> FALSE, EarliestTime |-> 0,
           UseLatestTime |-> FALSE, LatestTime |-> 0, AllowPartition |-> FALSE]

\* math.Ceil(a / b) for an integer a and b > 0
Ceil(a, b) == -((-a) \div b)

----------------------------------------------------------------------------
(* What the server may answer.  httpCall returns (body, status code, error); *)
(* a body either parses as the JSON the caller expects or does not.          *)

Garbage == [json |-> FALSE]
TransportError == [err |-> TRUE, code |-> 0, body |-> Garbage]
Response(code, body) == [err |-> FALSE, code |-> code, body |-> body]

\* The identifier the server gives the job created by invocation i.
SidOf(i) == i + 1
NoSid == 0

MessageEntries == {[Type |-> "ERROR", Message |-> "m1"], [Type |-> "WARN", Message |-> "m2"]}
MessageLists == UNION {[1 .. n -> MessageEntries] : n \in 0 .. MaxMsgs}
Contents == [IsDone : BOOLEAN, IsFailed : BOOLEAN]
EntryLists == {<<>>} \cup {<<c>> : c \in Contents}
AllStatuses == [Messages : MessageLists, Entry : EntryLists]
\* Job statuses without diagnostics
PlainStatuses == [Messages : {<<>>}, Entry : EntryLists]
EmptyStatus == [Messages |-> <<>>, Entry |-> <<>>]

CreateResponses(i) ==
    {TransportError,
     Response(StatusCreated, [json |-> TRUE, sid |-> SidOf(i)]),
     Response(StatusCreated, Garbage),
     Response(StatusOK, [json |-> TRUE, sid |-> SidOf(i)]),
     Response(500, Garbage)}
StatusResponses(statuses) ==
    {TransportError, Response(StatusOK, Garbage), Response(500, Garbage)}
        \cup {Response(StatusOK, [json |-> TRUE, status |-> st]) : st \in statuses}
        \cup {Response(StatusCreated, [json |-> TRUE, status |-> st]) : st \in statuses}
ResultResponses(i, counts) ==
    {TransportError, Response(StatusOK, Garbage), Response(500, Garbage)}
        \cup {Response(StatusOK, [json |-> TRUE, results |-> Rows(i, n)]) : n \in counts}

----------------------------------------------------------------------------
(* The request functions, on the answer httpCall gave *)

\* Mutant of EffectiveMaxCount: no default
EffectiveMaxCountRaw(o) == o.MaxCount

\* SearchOptions.MaxCount with the default applied
EffectiveMaxCount(o) == IF o.MaxCount = 0 THEN DEFAULT_MAX_COUNT ELSE o.MaxCount

\* The form SearchJobCreate posts
CreateForm(o) ==
    [max_count |-> EffectiveMaxCount(o),
     earliest_time |-> IF o.UseEarliestTime THEN <<o.EarliestTime>> ELSE <<>>,
     latest_time |-> IF o.UseLatestTime THEN <<o.LatestTime>> ELSE <<>>]

\* Mutant of SearchJobCreate: any answer that came back counts as created
SearchJobCreateAnyStatus(resp) ==
    IF resp.err
    THEN [sid |-> NoSid, err |-> Errorf(<<"unable to create search job">>)]
    ELSE IF ~resp.body.json
    THEN [sid |-> NoSid, err |-> Errorf(<<"unable to parse sid from splunk">>)]
    ELSE [sid |-> resp.body.sid, err |-> NilErr]

SearchJobCreate(resp) ==
    IF resp.err \/ resp.code # StatusCreated
    THEN [sid |-> NoSid, err |-> Errorf(<<"unable to create search job">>)]
    ELSE IF ~resp.body.json
    THEN [sid |-> NoSid, err |-> Errorf(<<"unable to parse sid from splunk">>)]
    ELSE [sid |-> resp.body.sid, err |-> NilErr]

SearchJobStatus(resp) ==
    IF resp.err \/ resp.code # StatusOK
    THEN [status |-> EmptyStatus, err |-> Errorf(<<"unable to create search job">>)]
    ELSE IF ~resp.body.json
    THEN [status |-> EmptyStatus, err |-> Errorf(<<"unable to parse sid from splunk">>)]
    ELSE [status |-> resp.body.status, err |-> NilErr]

SearchJobResults(resp) ==
    IF resp.err \/ resp.code # StatusOK
    THEN [results |-> NoRows, err |-> Errorf(<<"unable to create search job">>)]
    ELSE IF ~resp.body.json
    THEN [results |-> NoRows, err |-> Errorf(<<"unable to parse sid from splunk">>)]
    ELSE [results |-> resp.body.results, err |-> NilErr]

\* fmt.Sprintf("%s: %s\n", e.Type, e.Message)
FormatMessage(e) == <<e.Type, ": ", e.Message, "\n">>

\* The loop of IsDone over s.Messages: each round assigns errorMsg.
RECURSIVE ErrorMsgLoop(_, _)
ErrorMsgLoop(messages, errorMsg) ==
    IF messages = <<>> THEN errorMsg
    ELSE ErrorMsgLoop(Tail(messages), FormatMessage(Head(messages)))

\* Mutant of IsDone: the done flag is looked at first
IsDoneFirst(s) ==
    IF Len(s.Entry) > 0
    THEN IF s.Entry[1].IsDone
         THEN [done |-> TRUE, err |-> NilErr]
         ELSE IF s.Entry[1].IsFailed
         THEN [done |-> TRUE, err |-> Errorf(ErrorMsgLoop(s.Messages, <<>>))]
         ELSE [done |-> FALSE, err |-> NilErr]
    ELSE [done |-> FALSE, err |-> NilErr]

IsDone(s) ==
    IF Len(s.Entry) > 0
    THEN IF s.Entry[1].IsDone /\ ~s.Entry[1].IsFailed
         THEN [done |-> TRUE, err |-> NilErr]
         ELSE IF s.Entry[1].IsFailed
         THEN [done |-> TRUE, err |-> Errorf(ErrorMsgLoop(s.Messages, <<>>))]
         ELSE [done |-> FALSE, err |-> NilErr]
    ELSE [done |-> FALSE, err |-> NilErr]

----------------------------------------------------------------------------
(* The partition windows: lines 197-229 *)

\* Mutants of PartitionStep: the quotient cut off instead of rounded up, and
\* a second added to the cut-off quotient
PartitionStepFloor(o) ==
    ((o.LatestTime - o.EarliestTime) \div (PARTITION_COUNT * TicksPerSecond)) * TicksPerSecond
PartitionStepPadded(o) ==
    (((o.LatestTime - o.EarliestTime) \div (PARTITION_COUNT * TicksPerSecond)) + 1)
        * TicksPerSecond

\* d of line 197, as the ticks time.Duration(d) * time.Second adds
PartitionStep(o) ==
    Ceil(o.LatestTime - o.EarliestTime, PARTITION_COUNT * TicksPerSecond) * TicksPerSecond

\* Mutant of EndT: every window ends one step after the parent's earliest time
EndTFromEarliest(o, idx) == o.EarliestTime + PartitionStep(o)

\* startT and endT in round idx of the loop of line 206
RECURSIVE StartT(_, _)
EndT(o, idx) == StartT(o, idx) + PartitionStep(o)
StartT(o, idx) == IF idx = 0 THEN o.EarliestTime ELSE EndT(o, idx - 1)

\* Mutant of PartitionSearchOptions: the goroutine reads the loop's startT and
\* endT when it runs, after the last round
PartitionSearchOptionsLastRound(o, idx) ==
    [o EXCEPT !.EarliestTime = StartT(o, PARTITION_COUNT - 1),
              !.LatestTime = EndT(o, PARTITION_COUNT - 1)]

\* partitionSearchOptions of the goroutine started in round idx
PartitionSearchOptions(o, idx) ==
    [o EXCEPT !.EarliestTime = StartT(o, idx), !.LatestTime = EndT(o, idx)]

\* Mutants of ShouldPartition: fewer rows than the max-count partition too;
\* the time-bound flags are not looked at
ShouldPartitionAtMost(o, rows) ==
    /\ Len(rows) <= o.MaxCount
    /\ o.AllowPartition
    /\ o.UseEarliestTime
    /\ o.UseLatestTime
ShouldPartitionUnbounded(o, rows) ==
    /\ Len(rows) = o.MaxCount
    /\ o.AllowPartition \/ (o.UseEarliestTime /\ o.UseLatestTime)

\* The condition of lines 189-194 on the fetched rows
ShouldPartition(o, rows) ==
    /\ Len(rows) = o.MaxCount
    /\ o.AllowPartition
    /\ o.UseEarliestTime
    /\ o.UseLatestTime

----------------------------------------------------------------------------
(* The join: lines 234-244 *)

ErrAt(idx) == IF idx \in DOMAIN partitionedErr THEN partitionedErr[idx] ELSE NilErr

\* The orders in which a set of keys can be visited
RECURSIVE Orders(_)
Orders(keys) ==
    IF keys = {} THEN {<<>>}
    ELSE UNION {{<<k>> \o rest : rest \in Orders(keys \ {k})} : k \in keys}

\* The orders in which `range` may visit the keys of a map: any
RangeOrders(m) == Orders(DOMAIN m)

RECURSIVE JoinLoop(_, _)
JoinLoop(order, acc) ==
    IF order = <<>> THEN [rows |-> acc, err |-> NilErr]
    ELSE IF ~ErrAt(Head(order)).nil
         THEN [rows |-> acc, err |-> ErrAt(Head(order))]
         ELSE JoinLoop(Tail(order), acc \o partitionedResults[Head(order)])

----------------------------------------------------------------------------
(* Connection.Search: what each part of it does with the answer it gets *)

\* Mutants of PollOutcome: a job that is still running is fetched at once;
\* a poll that failed is tried again
PollOutcomeNoWait(resp) ==
    LET s == SearchJobStatus(resp)
        d == IsDone(s.status)
    IN IF ~s.err.nil THEN [kind |-> "error", err |-> s.err]
       ELSE IF ~d.err.nil THEN [kind |-> "error", err |-> d.err]
       ELSE [kind |-> "done", err |-> NilErr]
PollOutcomeRetry(resp) ==
    LET s == SearchJobStatus(resp)
        d == IsDone(s.status)
    IN IF ~s.err.nil THEN [kind |-> "sleep", err |-> NilErr]
       ELSE IF ~d.err.nil THEN [kind |-> "error", err |-> d.err]
       ELSE IF d.done THEN [kind |-> "done", err |-> NilErr]
       ELSE [kind |-> "sleep", err |-> NilErr]

\* One round of the polling loop, lines 166-181
PollOutcome(resp) ==
    LET s == SearchJobStatus(resp)
        d == IsDone(s.status)
    IN IF ~s.err.nil THEN [kind |-> "error", err |-> s.err]
       ELSE IF ~d.err.nil THEN [kind |-> "error", err |-> d.err]
       ELSE IF d.done THEN [kind |-> "done", err |-> NilErr]
       ELSE [kind |-> "sleep", err |-> NilErr]

\* Lines 184-194 and 248 on the rows fetched under options o
FetchOutcome(o, resp) ==
    LET r == SearchJobResults(resp)
    IN IF ~r.err.nil THEN [kind |-> "error", rows |-> NoRows, err |-> r.err]
       ELSE IF ShouldPartition(o, r.results)
       THEN [kind |-> "partition", rows |-> r.results, err |-> NilErr]
       ELSE [kind |-> "return", rows |-> r.results, err |-> NilErr]

\* The polling loop of lines 165-182 over the answers to its polls
RECURSIVE PollLoop(_)
PollLoop(resps) ==
    IF resps = <<>> THEN [kind |-> "sleep", err |-> NilErr]
    ELSE IF PollOutcome(Head(resps)).kind = "sleep" THEN PollLoop(Tail(resps))
    ELSE PollOutcome(Head(resps))

\* Mutant of RunSearch: the polls and the fetch go to the job of the caller's
\* Search
RunSearchSharedSid(o, script) ==
    LET c == SearchJobCreate(script.create)
        p == PollLoop(script.polls)
        f == FetchOutcome([o EXCEPT !.MaxCount = EffectiveMaxCount(o)], script.fetch)
    IN IF ~c.err.nil THEN [kind |-> "error", sid |-> NoSid, rows |-> NoRows, err |-> c.err]
       ELSE IF p.kind # "done"
       THEN [kind |-> p.kind, sid |-> sid[Root], rows |-> NoRows, err |-> p.err]
       ELSE [kind |-> f.kind, sid |-> sid[Root], rows |-> f.rows, err |-> f.err]

\* Lines 155-194 and 248 of one Search, run on the answers to its requests:
\* where it ends ("error", "return", "partition", or "sleep": still polling),
\* and the job its polls and its fetch were sent for.
RunSearch(o, script) ==
    LET c == SearchJobCreate(script.create)
        p == PollLoop(script.polls)
        f == FetchOutcome([o EXCEPT !.MaxCount = EffectiveMaxCount(o)], script.fetch)
    IN IF ~c.err.nil THEN [kind |-> "error", sid |-> NoSid, rows |-> NoRows, err |-> c.err]
       ELSE IF p.kind # "done" THEN [kind |-> p.kind, sid |-> c.sid, rows |-> NoRows, err |-> p.err]
       ELSE [kind |-> f.kind, sid |-> c.sid, rows |-> f.rows, err |-> f.err]

----------------------------------------------------------------------------
(* The Search the caller made, step by step.  Each step takes the answer of *)
(* the one request it sends.                                                *)

\* Search returns (rows, e) in invocation i.
Return(i, rows, e) ==
    /\ pc' = [pc EXCEPT ![i] = "returned"]
    /\ results' = [results EXCEPT ![i] = rows]
    /\ err' = [err EXCEPT ![i] = From(i, e)]

\* The step made invocation i fail: that uses up one of the server's failures.
Injected(i) ==
    /\ err'[i].nil \/ faults < MaxFaults
    /\ faults' = IF err'[i].nil THEN faults ELSE faults + 1

\* Mutant of CreateStep: the error of SearchJobCreate is not looked at
CreateStepNoCheck(resp) ==
    /\ pc[Root] = "create"
    /\ opts' = [opts EXCEPT ![Root].MaxCount = EffectiveMaxCount(opts[Root])]
    /\ sid' = [sid EXCEPT ![Root] = SearchJobCreate(resp).sid]
    /\ pc' = [pc EXCEPT ![Root] = "poll"]
    /\ UNCHANGED <<results, err, faults, partitionedResults, partitionedErr, wg>>

\* Lines 155-162: default the max-count, create the job.
CreateStep(resp) ==
    /\ pc[Root] = "create"
    /\ opts' = [opts EXCEPT ![Root].MaxCount = EffectiveMaxCount(opts[Root])]
    /\ LET c == SearchJobCreate(resp)
       IN IF c.err.nil
          THEN /\ sid' = [sid EXCEPT ![Root] = c.sid]
               /\ pc' = [pc EXCEPT ![Root] = "poll"]
               /\ UNCHANGED <<results, err>>
          ELSE /\ Return(Root, NoRows, c.err)
               /\ UNCHANGED sid
    /\ Injected(Root)
    /\ UNCHANGED <<partitionedResults, partitionedErr, wg>>

\* Lines 165-182: one round of the polling loop.
PollStep(resp) ==
    /\ pc[Root] = "poll"
    /\ LET p == PollOutcome(resp)
       IN IF p.kind = "error" THEN Return(Root, NoRows, p.err)
          ELSE IF p.kind = "done"
          THEN /\ pc' = [pc EXCEPT ![Root] = "fetch"]
               /\ UNCHANGED <<results, err>>
          ELSE UNCHANGED <<pc, results, err>>
    /\ Injected(Root)
    /\ UNCHANGED <<opts, sid, partitionedResults, partitionedErr, wg>>

\* Lines 197-229: the loop that starts the PARTITION_COUNT goroutines.
FanOut(rows) ==
    /\ opts' = [i \in Invocations |->
                    IF i = Root THEN opts[Root]
                    ELSE PartitionSearchOptions(opts[Root], i - 1)]
    /\ pc' = [i \in Invocations |-> IF i = Root THEN "wait" ELSE "search"]
    /\ results' = [results EXCEPT ![Root] = rows]
    /\ wg' = wg + PARTITION_COUNT
    /\ partitionedResults' = <<>>
    /\ partitionedErr' = <<>>
    /\ UNCHANGED <<sid, err>>

\* Lines 184-229 and 248: fetch the rows, then return them or partition.
FetchStep(resp) ==
    /\ pc[Root] = "fetch"
    /\ LET f == FetchOutcome(opts[Root], resp)
       IN IF f.kind = "partition"
          THEN FanOut(f.rows)
          ELSE /\ Return(Root, f.rows, f.err)
               /\ UNCHANGED <<opts, sid, partitionedResults, partitionedErr, wg>>
    /\ Injected(Root)

----------------------------------------------------------------------------
(* The goroutines of the fan-out *)

\* What the fan-out of a sub-search can return (lines 237 and 244): rows of
\* its window, with or without the error of one of its own sub-searches.
NestedOutcomes(i) ==
    {[rows |-> Rows(i, opts[i].MaxCount + 1), err |-> NilErr],
     [rows |-> Rows(i, 1), err |-> From(i, Errorf(<<"unable to create search job">>))]}

\* Line 223: the goroutine of partition i - 1 runs Search on its window, to
\* its return; out is where RunSearch ends on the answers the Search gets.
\* Nothing in it touches what the other goroutines use.
SubSearchStep(i, out) ==
    /\ pc[i] = "search"
    /\ out.kind # "sleep"
    /\ IF out.kind = "partition"
       THEN \E nested \in NestedOutcomes(i) : Return(i, nested.rows, nested.err)
       ELSE Return(i, out.rows, out.err)
    /\ sid' = [sid EXCEPT ![i] = out.sid]
    /\ Injected(i)
    /\ UNCHANGED <<opts, partitionedResults, partitionedErr, wg>>

\* Two goroutines are about to write the maps with nothing ordering them.
Racing(i) == \E j \in Children \ {i} : pc[j] = "returned"

\* "fatal error: concurrent map writes": the process is gone.
Fatal ==
    /\ pc' = [i \in Invocations |-> "fatal"]
    /\ sid' = [i \in Invocations |-> NoSid]
    /\ results' = [i \in Invocations |-> NoRows]
    /\ err' = [i \in Invocations |-> NilErr]
    /\ partitionedResults' = <<>>
    /\ partitionedErr' = <<>>
    /\ wg' = 0
    /\ faults' = 0
    /\ UNCHANGED <<opts, trace, calls, data, stack, wire>>

\* The map m after `m[k] = v`
MapSet(m, k, v) == [x \in DOMAIN m \cup {k} |-> IF x = k THEN v ELSE m[x]]

\* Lines 224-225 and the deferred wg.Done of a goroutine whose Search has
\* returned; the goroutine and its locals end here.  The maps are plain Go maps: when another goroutine writes at
\* the same time the runtime may stop the process, or the write may be lost
\* (which the model counts as one more failure).
Store(i) ==
    /\ i \in Children
    /\ pc[i] = "returned"
    /\ \/ /\ Racing(i)
          /\ Fatal
       \/ /\ \E kept \in BOOLEAN :
                /\ (~kept) => (Racing(i) /\ faults < MaxFaults)
                /\ partitionedErr' =
                       IF kept THEN MapSet(partitionedErr, i - 1, err[i]) ELSE partitionedErr
                /\ partitionedResults' =
                       IF kept THEN MapSet(partitionedResults, i - 1, results[i])
                       ELSE partitionedResults
                /\ faults' = IF kept THEN faults ELSE faults + 1
          /\ pc' = [pc EXCEPT ![i] = "done"]
          /\ results' = [results EXCEPT ![i] = NoRows]
          /\ err' = [err EXCEPT ![i] = NilErr]
          /\ sid' = [sid EXCEPT ![i] = NoSid]
          /\ wg' = wg - 1
          /\ UNCHANGED <<opts, trace, calls, data, stack, wire>>

\* Mutant of WaitDone: one finished goroutine is enough
WaitDoneAny == wg < PARTITION_COUNT

\* wg.Wait() of line 232 lets the parent go on.
WaitDone == wg = 0

\* Lines 232-244: join, then range over the results map.
Join ==
    /\ pc[Root] = "wait"
    /\ WaitDone
    /\ \E order \in RangeOrders(partitionedResults) :
          LET j == JoinLoop(order, NoRows) IN Return(Root, j.rows, j.err)
    /\ UNCHANGED <<opts, sid, partitionedResults, partitionedErr, wg, faults, trace,
                   calls, data, stack, wire>>

----------------------------------------------------------------------------
(* The whole program: one Search and the sub-searches it starts, running   *)
(* concurrently, against a server that fails a request or a job, or        *)
(* answers it.                                                             *)

CreateAnswers(i) ==
    {TransportError, Response(StatusCreated, [json |-> TRUE, sid |-> SidOf(i)])}
PollAnswers ==
    {TransportError} \cup {Response(StatusOK, [json |-> TRUE, status |-> st]) : st \in PlainStatuses}
FetchAnswers(i, o) ==
    {TransportError}
        \cup {Response(StatusOK, [json |-> TRUE, results |-> Rows(i, n)]) :
                n \in 0 .. EffectiveMaxCount(o)}

SleepAnswers == {resp \in PollAnswers : PollOutcome(resp).kind = "sleep"}
DoneAnswers == {resp \in PollAnswers : PollOutcome(resp).kind = "done"}
ErrorAnswers == {resp \in PollAnswers : PollOutcome(resp).kind = "error"}

\* The answers to the polls of one job: up to MaxSubPolls, the last one in
\* `last` and the ones before it telling the job is still running
PollScripts(last) ==
    UNION {{before \o <<resp>> : before \in [1 .. n -> SleepAnswers], resp \in last} :
             n \in 0 .. (MaxSubPolls - 1)}

\* The polls of a job that ends in an error, and of one that gets done
ErrorPolls == PollScripts(ErrorAnswers)
DonePolls == PollScripts(DoneAnswers)

\* The answers one sub-search may get, up to the request that ends it
Scripts(i) ==
    [create : {TransportError}, polls : {<<>>}, fetch : {TransportError}]
        \cup [create : CreateAnswers(i) \ {TransportError},
              polls : ErrorPolls, fetch : {TransportError}]
        \cup [create : CreateAnswers(i) \ {TransportError},
              polls : DonePolls, fetch : FetchAnswers(i, opts[i])]

Create ==
    /\ pc[Root] = "create"
    /\ \E resp \in CreateAnswers(Root) : CreateStep(resp)
    /\ UNCHANGED <<trace, calls, data, stack, wire>>
Poll ==
    /\ pc[Root] = "poll"
    /\ \E resp \in PollAnswers : PollStep(resp)
    /\ UNCHANGED <<trace, calls, data, stack, wire>>
Fetch ==
    /\ pc[Root] = "fetch"
    /\ \E resp \in FetchAnswers(Root, opts[Root]) : FetchStep(resp)
    /\ UNCHANGED <<trace, calls, data, stack, wire>>
SubSearch(i) ==
    /\ pc[i] = "search"
    /\ \E out \in {RunSearch(opts[i], script) : script \in Scripts(i)} : SubSearchStep(i, out)
    /\ UNCHANGED <<trace, calls, data, stack, wire>>

Windows == {7 * TicksPerSecond}

SearchOptions ==
    [MaxCount : {1},
     UseEarliestTime : BOOLEAN, EarliestTime : {0},
     UseLatestTime : BOOLEAN, LatestTime : Windows,
     AllowPartition : BOOLEAN]

InitWith(options) ==
    /\ opts \in {[i \in Invocations |-> IF i = Root THEN o ELSE NoOpts] : o \in options}
    /\ pc = [i \in Invocations |-> IF i = Root THEN "create" ELSE "idle"]
    /\ sid = [i \in Invocations |-> NoSid]
    /\ results = [i \in Invocations |-> NoRows]
    /\ err = [i \in Invocations |-> NilErr]
    /\ partitionedResults = <<>>
    /\ partitionedErr = <<>>
    /\ wg = 0
    /\ faults = 0
    /\ trace = <<>>
    /\ calls = <<>>
    /\ data = NoData
    /\ stack = <<>>
    /\ wire = <<>>

Init == InitWith(SearchOptions)

Next ==
    \/ Create
    \/ Poll
    \/ Fetch
    \/ \E i \in Children : SubSearch(i)
    \/ \E i \in Children : Store(i)
    \/ Join

Spec == Init /\ [][Next]_vars

----------------------------------------------------------------------------
(* One Search against every answer the server can give, up to the start of *)
(* its goroutines, with a record of the requests it sent.                   *)

\* What a request of the trace was and what the server said to it
Sent(req, jobID, form, resp) ==
    LET ok == ~resp.err /\ resp.code = (IF req = "create" THEN StatusCreated ELSE StatusOK)
                /\ resp.body.json
        entry == ok /\ req = "status" /\ Len(resp.body.status.Entry) > 0
        failed == entry /\ resp.body.status.Entry[1].IsFailed
    IN [req |-> req, sid |-> jobID, form |-> form, ok |-> ok,
        code |-> resp.code,
        fault |-> IF resp.err THEN "transport"
                  ELSE IF resp.code # (IF req = "create" THEN StatusCreated ELSE StatusOK)
                  THEN "status"
                  ELSE IF ~resp.body.json THEN "parse" ELSE "none",
        isDone |-> entry /\ resp.body.status.Entry[1].IsDone,
        isFailed |-> failed,
        messages |-> IF failed THEN resp.body.status.Messages ELSE <<>>,
        rows |-> IF ok /\ req = "results" THEN Len(resp.body.results) ELSE 0]

NoForm == <<>>
Polls == Len(SelectSeq(trace, LAMBDA t : t.req = "status"))

JobCreate ==
    /\ pc[Root] = "create"
    /\ \E resp \in CreateResponses(Root) :
          /\ CreateStep(resp)
          /\ trace' = Append(trace, Sent("create", NoSid, <<CreateForm(opts'[Root])>>, resp))
    /\ UNCHANGED <<calls, data, stack, wire>>

JobPoll ==
    /\ pc[Root] = "poll"
    /\ Polls < MaxPolls
    /\ \E resp \in StatusResponses(AllStatuses) :
          /\ PollStep(resp)
          /\ trace' = Append(trace, Sent("status", sid[Root], NoForm, resp))
    /\ UNCHANGED <<calls, data, stack, wire>>

RowCounts(o) == (0 .. MaxRows) \cup {EffectiveMaxCount(o)}

JobFetch ==
    /\ pc[Root] = "fetch"
    /\ \E resp \in ResultResponses(Root, RowCounts(opts[Root])) :
          /\ FetchStep(resp)
          /\ trace' = Append(trace, Sent("results", sid[Root], NoForm, resp))
    /\ UNCHANGED <<calls, data, stack, wire>>

Times == (0 - MaxBack * TicksPerSecond) .. (MaxWindow * TicksPerSecond)

JobOptions ==
    [MaxCount : 0 .. MaxCountOpt,
     UseEarliestTime : BOOLEAN, EarliestTime : {0},
     UseLatestTime : BOOLEAN, LatestTime : Times,
     AllowPartition : BOOLEAN]

\* A 500-second window under a max-count of 100
Scenario ==
    [MaxCount |-> 100,
     UseEarliestTime |-> TRUE, EarliestTime |-> 0,
     UseLatestTime |-> TRUE, LatestTime |-> 500 * TicksPerSecond,
     AllowPartition |-> TRUE]

InitJob == InitWith(JobOptions \cup {Scenario})

NextJob ==
    \/ JobCreate
    \/ JobPoll
    \/ JobFetch

SpecJob == InitJob /\ [][NextJob]_vars

----------------------------------------------------------------------------
(* SearchAndExec, lines 252-267: Search, then the caller's handlers         *)

\* The calls of the two handlers; an onSuccess call records what it returned.
OnError(e) == [handler |-> "onError", rows |-> NoRows, err |-> e, returned |-> NilErr]
OnSuccess(rows, he) == [handler |-> "onSuccess", rows |-> rows, err |-> NilErr, returned |-> he]

\* What the caller's success handler may return: nil or an error of its own
HandlerErr == [nil |-> FALSE, origin |-> -2, text |-> <<"handler">>]
HandlerReturns == {NilErr, HandlerErr}

\* Mutants of SearchAndExecCalls: no return after the first onError; the
\* error of the success handler is dropped
SearchAndExecCallsFallThrough(rows, e, he) ==
    (IF ~e.nil THEN <<OnError(e)>> ELSE <<>>)
        \o <<OnSuccess(rows, he)>> \o (IF ~he.nil THEN <<OnError(he)>> ELSE <<>>)
SearchAndExecCallsDropped(rows, e, he) ==
    IF ~e.nil THEN <<OnError(e)>> ELSE <<OnSuccess(rows, he)>>

\* Lines 257-266: the handler calls made when Search returned (rows, e) and
\* the success handler, if called, returns he
SearchAndExecCalls(rows, e, he) ==
    IF ~e.nil THEN <<OnError(e)>>
    ELSE <<OnSuccess(rows, he)>> \o (IF ~he.nil THEN <<OnError(he)>> ELSE <<>>)

\* Line 256: c.Search, to its return
ExecSearch ==
    /\ pc[Root] = "search"
    /\ \E out \in {RunSearch(opts[Root], script) : script \in Scripts(Root)} :
          SubSearchStep(Root, out)
    /\ UNCHANGED <<trace, calls, data, stack, wire>>

\* Lines 257-267: the handlers, then SearchAndExec returns
ExecHandlers ==
    /\ pc[Root] = "returned"
    /\ \E he \in HandlerReturns :
          calls' = calls \o SearchAndExecCalls(results[Root], err[Root], he)
    /\ pc' = [pc EXCEPT ![Root] = "exited"]
    /\ UNCHANGED <<opts, sid, results, err, partitionedResults, partitionedErr, wg, faults,
                   trace, data, stack, wire>>

ExecOptions ==
    [MaxCount : 1 .. MaxCountOpt,
     UseEarliestTime : BOOLEAN, EarliestTime : {0},
     UseLatestTime : BOOLEAN, LatestTime : Windows,
     AllowPartition : BOOLEAN]

InitExec ==
    /\ opts \in {[i \in Invocations |-> IF i = Root THEN o ELSE NoOpts] : o \in ExecOptions}
    /\ pc = [i \in Invocations |-> IF i = Root THEN "search" ELSE "idle"]
    /\ sid = [i \in Invocations |-> NoSid]
    /\ results = [i \in Invocations |-> NoRows]
    /\ err = [i \in Invocations |-> NilErr]
    /\ partitionedResults = <<>>
    /\ partitionedErr = <<>>
    /\ wg = 0
    /\ faults = 0
    /\ trace = <<>>
    /\ calls = <<>>
    /\ data = NoData
    /\ stack = <<>>
    /\ wire = <<>>

NextExec ==
    \/ ExecSearch
    \/ ExecHandlers

SpecExec == InitExec /\ [][NextExec]_vars

----------------------------------------------------------------------------
(* Recursive partitioning against a server that answers every request and  *)
(* returns the rows of the window asked for, up to the max-count.  A Search *)
(* that partitions returns when its 5 sub-searches have returned, each of   *)
(* them a Search of its own: it returns exactly when every chain of         *)
(* sub-searches below it ends.  The model follows one chain: invocation 0   *)
(* is the Search the chain has come to.                                     *)

\* The rows the server holds with a timestamp in the window of o
RECURSIVE RowsIn(_)
RowsIn(ticks) ==
    IF ticks = {} THEN 0
    ELSE LET t == CHOOSE x \in ticks : TRUE IN data[t] + RowsIn(ticks \ {t})
Matching(o) == RowsIn({t \in DOMAIN data : o.EarliestTime <= t /\ t < o.LatestTime})

Min(a, b) == IF a <= b THEN a ELSE b

\* The answers of a server on which every job gets done
CreatedAnswer(i) == Response(StatusCreated, [json |-> TRUE, sid |-> SidOf(i)])
DoneAnswer ==
    Response(StatusOK, [json |-> TRUE,
                        status |-> [Messages |-> <<>>,
                                    Entry |-> <<[IsDone |-> TRUE, IsFailed |-> FALSE]>>]])
RowsAnswer(i, o) ==
    Response(StatusOK, [json |-> TRUE, results |-> Rows(i, Min(Matching(o), o.MaxCount))])

RecCreate ==
    /\ pc[Root] = "create"
    /\ CreateStep(CreatedAnswer(Root))
    /\ UNCHANGED <<trace, calls, data, stack, wire>>
RecPoll ==
    /\ pc[Root] = "poll"
    /\ PollStep(DoneAnswer)
    /\ UNCHANGED <<trace, calls, data, stack, wire>>
RecFetch ==
    /\ pc[Root] = "fetch"
    /\ FetchStep(RowsAnswer(Root, opts[Root]))
    /\ UNCHANGED <<trace, calls, data, stack, wire>>

\* Line 223 in the goroutine of partition i - 1: the Search it starts is the
\* one followed from here on.
Descend(i) ==
    /\ pc[Root] = "wait"
    /\ pc[i] = "search"
    /\ opts' = [j \in Invocations |-> IF j = Root THEN opts[i] ELSE NoOpts]
    /\ pc' = [j \in Invocations |-> IF j = Root THEN "create" ELSE "idle"]
    /\ sid' = [j \in Invocations |-> NoSid]
    /\ results' = [j \in Invocations |-> NoRows]
    /\ err' = [j \in Invocations |-> NilErr]
    /\ partitionedResults' = <<>>
    /\ partitionedErr' = <<>>
    /\ wg' = 0
    /\ UNCHANGED <<faults, trace, calls, data, stack, wire>>

DataSets == [0 .. (MaxDataSeconds * TicksPerSecond - 1) -> 0 .. MaxPerTick]

RecOptions ==
    [MaxCount : 1 .. MaxCountOpt,
     UseEarliestTime : {TRUE}, EarliestTime : {0},
     UseLatestTime : {TRUE}, LatestTime : 0 .. (MaxRecWindow * TicksPerSecond),
     AllowPartition : {TRUE}]

InitRec ==
    /\ opts \in {[i \in Invocations |-> IF i = Root THEN o ELSE NoOpts] : o \in RecOptions}
    /\ pc = [i \in Invocations |-> IF i = Root THEN "create" ELSE "idle"]
    /\ sid = [i \in Invocations |-> NoSid]
    /\ results = [i \in Invocations |-> NoRows]
    /\ err = [i \in Invocations |-> NilErr]
    /\ partitionedResults = <<>>
    /\ partitionedErr = <<>>
    /\ wg = 0
    /\ faults = 0
    /\ trace = <<>>
    /\ calls = <<>>
    /\ data \in DataSets
    /\ stack = <<>>
    /\ wire = <<>>

NextRec ==
    \/ RecCreate
    \/ RecPoll
    \/ RecFetch
    \/ \E i \in Children : Descend(i)

\* The server answers every request and the scheduler runs every goroutine.
SpecRec == InitRec /\ [][NextRec]_vars /\ WF_vars(NextRec)

----------------------------------------------------------------------------
(* Signing a request.  httpCall, wrapAuth and getSessionKey have value      *)
(* receivers: every call works on its own copy of the Connection, which a   *)
(* frame of the call stack carries as c.  A frame is at "entry" before its  *)
(* body ran, "called" while a callee runs, "dispatch" when httpCall is about *)
(* to send the signed request, and "return" when its results are set.       *)

BasicAuth == "basic"
AuthenticationTokenAuth == "authentication-token"
AuthorizationTokenAuth == "authorization-token"
LoginEndpoint == "/services/auth/login"
NoKey == ""
NoHeader == <<>>

\* httpCall's results on a failure: ([]byte(""), 0, err)
Failed(e) == [err |-> e, resp |-> Response(0, Garbage)]
NoReturn == Failed(NilErr)

Frame(fn, c, endpoint) ==
    [fn |-> fn, c |-> c, endpoint |-> endpoint, at |-> "entry", header |-> NoHeader,
     ret |-> NoReturn]

Top == stack[Len(stack)]

\* The session key is missing, or was last used more than an hour ago.
SessionKeyStale(c) == c.sessionKey = NoKey \/ c.expired

\* The Authorization header wrapAuth sets from its copy of the Connection
WrapAuthHeader(c) ==
    CASE c.AuthType = BasicAuth -> <<"Basic", "credentials">>
      [] c.AuthType = AuthenticationTokenAuth -> <<"Bearer", "token">>
      [] c.AuthType = AuthorizationTokenAuth -> <<"Splunk", c.sessionKey>>
      [] OTHER -> NoHeader

\* The function the frame calls next, "none" when it calls nothing:
\* httpCall signs its request, wrapAuth refreshes a stale session key, and
\* getSessionKey posts the login through httpCall.
Callee(f) ==
    IF f.at # "entry" THEN "none"
    ELSE CASE f.fn = "httpCall" -> "wrapAuth"
           [] f.fn = "wrapAuth" ->
                IF f.c.AuthType = AuthorizationTokenAuth /\ SessionKeyStale(f.c)
                THEN "getSessionKey" ELSE "none"
           [] f.fn = "getSessionKey" -> "httpCall"
           [] OTHER -> "none"

\* getSessionKey once its login came back with the results r
GetSessionKey(f, r) ==
    IF ~r.err.nil \/ r.resp.code # StatusOK
    THEN [f EXCEPT !.at = "return",
                   !.ret = Failed(Errorf(<<"unable to get sessionKey">> \o r.err.text))]
    ELSE IF ~r.resp.body.json
    THEN [f EXCEPT !.at = "return",
                   !.ret = Failed(Errorf(<<"unable to parse sessionKey from splunk">>))]
    ELSE [f EXCEPT !.c.sessionKey = r.resp.body.sessionKey, !.c.expired = FALSE,
                   !.at = "return", !.ret = NoReturn]

\* The caller after its callee returned.  The request is shared by pointer,
\* so httpCall sees the header wrapAuth set; the Connection is not, so
\* wrapAuth signs with the session key of its own copy.
Resume(caller, callee) ==
    CASE caller.fn = "httpCall" ->
            IF ~callee.ret.err.nil
            THEN [caller EXCEPT !.at = "return", !.ret = Failed(callee.ret.err)]
            ELSE [caller EXCEPT !.at = "dispatch", !.header = callee.header]
      [] caller.fn = "wrapAuth" ->
            IF ~callee.ret.err.nil
            THEN [caller EXCEPT !.at = "return", !.ret = Failed(callee.ret.err)]
            ELSE [caller EXCEPT !.at = "return", !.header = WrapAuthHeader(caller.c),
                                !.ret = NoReturn]
      [] caller.fn = "getSessionKey" -> GetSessionKey(caller, callee.ret)

\* httpCall's results for what client.Do and io.ReadAll gave
HttpReturn(resp) ==
    IF resp.err THEN Failed(Errorf(<<"transport">>)) ELSE [err |-> NilErr, resp |-> resp]

UnchangedSearch ==
    UNCHANGED <<opts, pc, sid, results, err, partitionedResults, partitionedErr, wg, faults,
                trace, calls, data>>

\* A call: the callee gets a copy of the caller's Connection.
AuthCall ==
    /\ stack # <<>>
    /\ Callee(Top) # "none"
    /\ Len(stack) < MaxStack
    /\ stack' = Append([stack EXCEPT ![Len(stack)].at = "called"],
                       Frame(Callee(Top), Top.c,
                             IF Callee(Top) = "httpCall" THEN LoginEndpoint ELSE Top.endpoint))
    /\ UNCHANGED wire
    /\ UnchangedSearch

\* A call the goroutine's stack has no room for: the runtime ends the process.
AuthOverflow ==
    /\ stack # <<>>
    /\ Callee(Top) # "none"
    /\ Len(stack) = MaxStack
    /\ stack' = Append(stack, Frame("stack overflow", Top.c, Top.endpoint))
    /\ UNCHANGED wire
    /\ UnchangedSearch

\* wrapAuth with nothing to refresh sets the header and returns nil.
AuthSign ==
    /\ stack # <<>>
    /\ Top.fn = "wrapAuth"
    /\ Top.at = "entry"
    /\ Callee(Top) = "none"
    /\ stack' = [stack EXCEPT ![Len(stack)] =
                    [Top EXCEPT !.at = "return", !.header = WrapAuthHeader(Top.c),
                                !.ret = NoReturn]]
    /\ UNCHANGED wire
    /\ UnchangedSearch

\* httpCall sends the signed request and reads the answer.
AuthDispatch(resp) ==
    /\ stack # <<>>
    /\ Top.fn = "httpCall"
    /\ Top.at = "dispatch"
    /\ wire' = Append(wire, [endpoint |-> Top.endpoint, header |-> Top.header])
    /\ stack' = [stack EXCEPT ![Len(stack)] =
                    [Top EXCEPT !.at = "return", !.ret = HttpReturn(resp)]]
    /\ UnchangedSearch

\* A callee returns to its caller, which goes on with the results.
AuthReturn ==
    /\ Len(stack) > 1
    /\ Top.at = "return"
    /\ stack' = Append(SubSeq(stack, 1, Len(stack) - 2), Resume(stack[Len(stack) - 1], Top))
    /\ UNCHANGED wire
    /\ UnchangedSearch

AuthTypes == {BasicAuth, AuthenticationTokenAuth, AuthorizationTokenAuth, ""}
Connections == [AuthType : AuthTypes, sessionKey : {NoKey, "key"}, expired : BOOLEAN]
Endpoints == {"/services/search/jobs", "/services/search/jobs/sid",
              "/services/search/jobs/sid/results"}
AuthAnswers ==
    {TransportError, Response(401, Garbage), Response(StatusOK, Garbage)}
        \cup {Response(StatusOK, [json |-> TRUE, sessionKey |-> k]) : k \in {NoKey, "fresh"}}

InitAuth ==
    /\ opts = [i \in Invocations |-> NoOpts]
    /\ pc = [i \in Invocations |-> "idle"]
    /\ sid = [i \in Invocations |-> NoSid]
    /\ results = [i \in Invocations |-> NoRows]
    /\ err = [i \in Invocations |-> NilErr]
    /\ partitionedResults = <<>>
    /\ partitionedErr = <<>>
    /\ wg = 0
    /\ faults = 0
    /\ trace = <<>>
    /\ calls = <<>>
    /\ data = NoData
    /\ stack \in {<<Frame("httpCall", c, e)>> : c \in Connections, e \in Endpoints}
    /\ wire = <<>>

NextAuth ==
    \/ AuthCall
    \/ AuthOverflow
    \/ AuthSign
    \/ \E resp \in AuthAnswers : AuthDispatch(resp)
    \/ AuthReturn

SpecAuth == InitAuth /\ [][NextAuth]_vars

----------------------------------------------------------------------------
(* Properties *)

Last(seq) == seq[Len(seq)]
Fetched == trace # <<>> /\ Last(trace).req = "results" /\ Last(trace).ok
BothBounds(o) == o.UseEarliestTime /\ o.UseLatestTime
\* The search of the caller has started its goroutines.
Partitioned == \A c \in Children : pc[c] \notin {"idle", "fatal"}
\* The ticks of the half-open window [earliest, latest)
Window(o) == o.EarliestTime .. (o.LatestTime - 1)
RECURSIVE ConcatPartitions(_)
ConcatPartitions(n) ==
    IF n = 0 THEN NoRows ELSE ConcatPartitions(n - 1) \o partitionedResults[n - 1]
RECURSIVE ConcatMessages(_)
ConcatMessages(messages) ==
    IF messages = <<>> THEN <<>>
    ELSE FormatMessage(Head(messages)) \o ConcatMessages(Tail(messages))

\* C1: when the fetch is as long as the max-count and AllowPartition and both
\* time-bound flags are set, exactly 5 sub-searches are started; the first
\* window starts at the parent's earliest time, each next one starts where
\* the one before ends, no two overlap, and the last one ends at or after the
\* parent's latest time.
C1_PartitionCoversWindow ==
    (Fetched /\ Last(trace).rows = opts[Root].MaxCount
        /\ opts[Root].AllowPartition /\ BothBounds(opts[Root]))
    => /\ pc[Root] = "wait"
       /\ Cardinality({c \in Children : pc[c] = "search"}) = 5
       /\ wg = 5
       /\ opts[1].EarliestTime = opts[Root].EarliestTime
       /\ \A c \in Children \ {1} : opts[c].EarliestTime = opts[c - 1].LatestTime
       /\ \A c, d \in Children : c # d => Window(opts[c]) \cap Window(opts[d]) = {}
       /\ opts[PARTITION_COUNT].LatestTime >= opts[Root].LatestTime
       /\ Window(opts[Root]) \subseteq UNION {Window(opts[c]) : c \in Children}

\* C1 witness: a 7-second window has been partitioned.
C1_Witness ==
    /\ pc[Root] = "wait"
    /\ opts[Root].LatestTime - opts[Root].EarliestTime = 7 * TicksPerSecond
    /\ opts[PARTITION_COUNT].LatestTime > opts[Root].LatestTime

\* C2 (as claimed): when all 5 sub-searches succeeded, the rows Search returns
\* are the sub-searches' rows concatenated in ascending partition index.
C2_OrderedConcatenation ==
    (pc[Root] = "returned" /\ Partitioned
        /\ DOMAIN partitionedResults = Partitions
        /\ DOMAIN partitionedErr = Partitions
        /\ \A idx \in Partitions : partitionedErr[idx].nil)
    => /\ err[Root].nil
       /\ results[Root] = ConcatPartitions(PARTITION_COUNT)

\* C3 (as claimed): a partitioned Search of which a sub-search failed returns
\* an error, and a Search that returns an error returns no rows.
C3_NoRowsWithError ==
    /\ (pc[Root] = "returned" /\ Partitioned /\ \E idx \in Partitions : ~ErrAt(idx).nil)
        => ~err[Root].nil
    /\ (pc[Root] = "returned" /\ ~err[Root].nil) => results[Root] = NoRows

\* C4 (as claimed): the goroutines' writes of the result and error maps are
\* race-free: no two of them are at the writes of lines 224-225 together
\* with nothing ordering them, and no run ends in the runtime's fatal error.
C4_MapWritesRaceFree ==
    /\ \A i, j \in Children : (i # j) => ~(pc[i] = "returned" /\ pc[j] = "returned")
    /\ pc[Root] # "fatal"

\* C5: a status with the failed flag set, with or without the done flag, is
\* the last request of the Search: no poll and no result fetch follows it, and
\* the Search has returned an error.
C5_FailedStopsSearch ==
    \A k \in 1 .. Len(trace) :
        (trace[k].req = "status" /\ trace[k].isFailed)
        => /\ k = Len(trace)
           /\ pc[Root] = "returned"
           /\ ~err[Root].nil
           /\ \A c \in Children : pc[c] = "idle"

\* C5 witness: after a poll that said "running", a poll with both flags set.
C5_Witness ==
    /\ Len(trace) >= 3
    /\ Last(trace).isFailed /\ Last(trace).isDone
    /\ pc[Root] = "returned"

\* C6 (as claimed): the error of a failed job is the concatenation, in list
\* order, of all its formatted diagnostic messages.
C6_AllMessages ==
    (trace # <<>> /\ Last(trace).isFailed)
    => err[Root].text = ConcatMessages(Last(trace).messages)

\* C7: fewer rows fetched than the max-count: Search returns them as they
\* are, with no error, and starts no sub-search, whatever the flags.
C7_BelowCapNoPartition ==
    (Fetched /\ Last(trace).rows < EffectiveMaxCount(opts[Root]))
    => /\ pc[Root] = "returned"
       /\ err[Root].nil
       /\ results[Root] = Rows(Root, Last(trace).rows)
       /\ \A c \in Children : pc[c] = "idle" /\ opts[c] = NoOpts
       /\ wg = 0
       /\ Len(SelectSeq(trace, LAMBDA t : t.req = "create")) = 1

\* C7 witness: one row under a max-count of 2, all three flags set.
C7_Witness ==
    /\ Fetched /\ Last(trace).rows = 1 /\ opts[Root].MaxCount = 2
    /\ opts[Root].AllowPartition /\ BothBounds(opts[Root])
    /\ pc[Root] = "returned"

\* C8: as many rows as the max-count but AllowPartition, UseEarliestTime or
\* UseLatestTime false: Search returns the rows as they are, with no error,
\* and starts no sub-search.
C8_NoPartitionUnlessAllowed ==
    (Fetched /\ Last(trace).rows = EffectiveMaxCount(opts[Root])
        /\ ~(opts[Root].AllowPartition /\ BothBounds(opts[Root])))
    => /\ pc[Root] = "returned"
       /\ err[Root].nil
       /\ results[Root] = Rows(Root, Last(trace).rows)
       /\ \A c \in Children : pc[c] = "idle" /\ opts[c] = NoOpts
       /\ wg = 0

\* C8 witness: the max-count reached, both time bounds set, AllowPartition not.
C8_Witness ==
    /\ Fetched /\ Last(trace).rows = opts[Root].MaxCount
    /\ ~opts[Root].AllowPartition /\ BothBounds(opts[Root])
    /\ pc[Root] = "returned" /\ Len(results[Root]) = opts[Root].MaxCount

\* C9 (as claimed): the 5 sub-windows tile the parent window exactly: the last
\* one ends at the parent's latest time.
C9_ExactTiling ==
    Partitioned => opts[PARTITION_COUNT].LatestTime = opts[Root].LatestTime

\* C9 (amended): the 5 sub-windows follow one another from the parent's
\* earliest time, all of one length, and the last one ends at the parent's
\* latest time rounded up to a whole multiple of 5 seconds of window: at or
\* after it, less than 5 seconds after it, and at it exactly when the window
\* is a whole multiple of 5 seconds long.
C9_TilingRoundedUp ==
    Partitioned =>
        LET over == opts[PARTITION_COUNT].LatestTime - opts[Root].LatestTime
            len == opts[Root].LatestTime - opts[Root].EarliestTime
        IN /\ opts[1].EarliestTime = opts[Root].EarliestTime
           /\ \A c \in Children \ {1} : opts[c].EarliestTime = opts[c - 1].LatestTime
           /\ \A c \in Children :
                 opts[c].LatestTime - opts[c].EarliestTime
                     = opts[1].LatestTime - opts[1].EarliestTime
           /\ 0 <= over /\ over < 5 * TicksPerSecond
           /\ (over = 0) <=> (len % (5 * TicksPerSecond) = 0)
           /\ (opts[1].LatestTime - opts[1].EarliestTime) % TicksPerSecond = 0

\* C9 witness: a 10-second window partitioned into windows that end with it.
C9_Witness ==
    /\ Partitioned
    /\ opts[Root].LatestTime - opts[Root].EarliestTime = 10 * TicksPerSecond
    /\ opts[PARTITION_COUNT].LatestTime = opts[Root].LatestTime

\* C10: a partitioned Search has returned only when all 5 goroutines have
\* finished, and a sub-search that returns an error leaves its siblings as
\* they are.
C10_WaitsForAll ==
    /\ [](pc[Root] = "returned" /\ Partitioned => \A c \in Children : pc[c] = "done")
    /\ [][\A c \in Children :
            (pc[c] = "search" /\ pc'[c] = "returned" /\ ~err'[c].nil)
            => \A d \in Children \ {c} :
                  pc'[d] = pc[d] /\ results'[d] = results[d] /\ err'[d] = err[d]]_vars

\* C10 witness: a partitioned Search has returned the error of a sub-search.
C10_Witness ==
    /\ pc[Root] = "returned" /\ Partitioned
    /\ ~err[Root].nil
    /\ \E idx \in Partitions : ErrAt(idx).nil /\ idx \in DOMAIN partitionedResults

\* A poll that succeeded and told that the job is neither done nor failed
Running(t) == t.req = "status" /\ t.ok /\ ~t.isDone /\ ~t.isFailed
Length(o) == o.LatestTime - o.EarliestTime

\* C12: as long as every poll succeeds and reports neither done nor failed,
\* Search has not returned and has sent no result fetch: it is still polling,
\* however many polls it has made.
C12_PollsForever ==
    (Len(trace) >= 2 /\ \A k \in 2 .. Len(trace) : Running(trace[k]))
    => /\ pc[Root] = "poll"
       /\ err[Root].nil /\ results[Root] = NoRows
       /\ \A c \in Children : pc[c] = "idle"

\* C12 witness: MaxPolls polls, all of a running job.
C12_Witness ==
    /\ Polls = MaxPolls
    /\ \A k \in 2 .. Len(trace) : Running(trace[k])
    /\ pc[Root] = "poll"

\* C13: a poll that fails at transport level, comes back with a status other
\* than 200 or with a body that does not parse is the last request Search
\* sends: Search has returned that error, with no rows.
C13_PollErrorAborts ==
    \A k \in 1 .. Len(trace) :
        (trace[k].req = "status" /\ trace[k].fault # "none")
        => /\ k = Len(trace)
           /\ pc[Root] = "returned"
           /\ results[Root] = NoRows
           /\ err[Root] = From(Root, Errorf(IF trace[k].fault = "parse"
                                            THEN <<"unable to parse sid from splunk">>
                                            ELSE <<"unable to create search job">>))
           /\ \A c \in Children : pc[c] = "idle"

\* C13 witness: after a poll of a running job, a poll whose body does not parse.
C13_Witness ==
    /\ Len(trace) = 3
    /\ Running(trace[2])
    /\ trace[3].req = "status" /\ trace[3].fault = "parse"
    /\ pc[Root] = "returned"

\* C16: Search holds a job identifier only when the creation request came
\* back with status 201; after a transport error or any other status the
\* creation request is the only request sent and Search has returned the
\* creation error.
C16_CreateOnly201 ==
    trace # <<>> =>
        /\ trace[1].req = "create"
        /\ sid[Root] # NoSid => (trace[1].fault = "none" /\ trace[1].code = 201)
        /\ trace[1].fault \in {"transport", "status"}
           => /\ Len(trace) = 1
              /\ sid[Root] = NoSid
              /\ pc[Root] = "returned"
              /\ results[Root] = NoRows
              /\ err[Root] = From(Root, Errorf(<<"unable to create search job">>))

\* C16 witness: the creation request came back with status 200.
C16_Witness ==
    /\ Len(trace) = 1 /\ trace[1].req = "create" /\ trace[1].code = 200
    /\ pc[Root] = "returned" /\ ~err[Root].nil

\* C17: the max-count in force is the caller's, or 10000 when the caller's is
\* 0: it is the max_count of the creation form, the row count that triggers
\* partitioning, and the MaxCount of every sub-search.
C17_EffectiveMaxCount ==
    /\ [][(pc[Root] = "create" /\ pc'[Root] # "create")
          => Last(trace').form[1].max_count
                = (IF opts[Root].MaxCount = 0 THEN 10000 ELSE opts[Root].MaxCount)]_vars
    /\ [](Fetched =>
            ((pc[Root] = "wait")
                <=> /\ Last(trace).rows = trace[1].form[1].max_count
                    /\ opts[Root].AllowPartition /\ BothBounds(opts[Root])))
    /\ [](Partitioned =>
            \A c \in Children : opts[c].MaxCount = trace[1].form[1].max_count)

\* C17 witness: a Search with MaxCount 0 fetched 10000 rows and partitioned.
C17_Witness ==
    /\ Partitioned
    /\ trace[1].form[1].max_count = 10000
    /\ Last(trace).rows = 10000
    /\ \A c \in Children : opts[c].MaxCount = 10000

\* C20 (as claimed): every sub-window of a partitioned window is strictly
\* shorter than the window.
C20_SubWindowsShorter ==
    Partitioned => \A c \in Children : Length(opts[c]) < Length(opts[Root])

\* C18: no job identifier is used by two invocations, siblings or parent and
\* child: the job an invocation polls and fetches is the one its own
\* creation request returned.
C18_SidNotShared ==
    /\ \A i \in Invocations : sid[i] \in {NoSid, SidOf(i)}
    /\ \A i, j \in Invocations : (i # j /\ sid[i] # NoSid) => sid[i] # sid[j]

\* C18 witness: the caller's Search and two of its sub-searches have each
\* polled a job.
C18_Witness ==
    /\ sid[Root] # NoSid
    /\ \E i, j \in Children : i # j /\ sid[i] # NoSid /\ sid[j] # NoSid

FailedPartitions == {idx \in Partitions : ~ErrAt(idx).nil}
Lowest(S) == CHOOSE x \in S : \A y \in S : x <= y

\* C19 (as claimed): when several sub-searches failed, Search returns the
\* error of the failed partition with the lowest index.
C19_LowestIndexError ==
    (pc[Root] = "returned" /\ Partitioned /\ Cardinality(FailedPartitions) >= 2)
    => err[Root] = partitionedErr[Lowest(FailedPartitions)]

ErrorCalls == SelectSeq(calls, LAMBDA c : c.handler = "onError")
SuccessCalls == SelectSeq(calls, LAMBDA c : c.handler = "onSuccess")

\* C14: when the search failed, SearchAndExec has called the error handler
\* once, with the search's error, and the success handler not at all; in
\* every execution the error handler is called at most once.
C14_ErrorHandlerOnce ==
    /\ Len(ErrorCalls) <= 1
    /\ ~err[Root].nil => SuccessCalls = <<>>
    /\ (pc[Root] = "exited" /\ ~err[Root].nil) => calls = <<OnError(err[Root])>>

\* C14 witness: SearchAndExec is over after a search that failed with rows
\* in hand.
C14_Witness ==
    /\ pc[Root] = "exited" /\ ~err[Root].nil /\ results[Root] # NoRows
    /\ Len(ErrorCalls) = 1

\* C15: when the search succeeded, SearchAndExec has called the success
\* handler once, with the search's rows, and when that call returned an error
\* it has then called the error handler with that error.
C15_SuccessThenRouted ==
    (pc[Root] = "exited" /\ err[Root].nil)
    => /\ Len(SuccessCalls) = 1
       /\ calls[1].handler = "onSuccess" /\ calls[1].rows = results[Root]
       /\ IF calls[1].returned.nil THEN Len(calls) = 1
          ELSE calls = <<calls[1], OnError(calls[1].returned)>>

\* C15 witness: the success handler got rows and returned an error.
C15_Witness ==
    /\ pc[Root] = "exited" /\ err[Root].nil /\ results[Root] # NoRows
    /\ Len(calls) = 2 /\ calls[2] = OnError(HandlerErr)

\* C11 (as claimed): on a server that answers every request with the rows of
\* the window, up to the max-count, every chain of sub-searches comes to a
\* Search that returns without partitioning.
C11_RecursionTerminates == <>(pc[Root] = "returned")

\* ceil(x / 5) for a whole number of ticks x, in seconds: the least whole
\* number of seconds n with 5 * n seconds >= x ticks
CeilFifth(x) ==
    CHOOSE n \in (0 - 2 * MaxBack - 500) .. (2 * MaxWindow + 500) :
        /\ PARTITION_COUNT * n * TicksPerSecond >= x
        /\ PARTITION_COUNT * (n - 1) * TicksPerSecond < x

\* C21: every sub-window is ceil((latest - earliest) / 5) seconds long and
\* sub-window i starts at earliest + i times that length; a 500-second window
\* gets the windows [0, 100), [100, 200), [200, 300), [300, 400), [400, 500).
C21_SubWindowLength ==
    Partitioned =>
        LET d == CeilFifth(Length(opts[Root])) * TicksPerSecond
        IN /\ \A c \in Children :
                 /\ opts[c].EarliestTime = opts[Root].EarliestTime + (c - 1) * d
                 /\ Length(opts[c]) = d
           /\ Length(opts[Root]) = 500 * TicksPerSecond
              => \A c \in Children :
                    /\ opts[c].EarliestTime = opts[Root].EarliestTime
                                                + (c - 1) * 100 * TicksPerSecond
                    /\ opts[c].LatestTime = opts[Root].EarliestTime + c * 100 * TicksPerSecond

\* C21 witness: the 500-second window under a max-count of 100, partitioned
\* after 100 rows were fetched.
C21_Witness ==
    /\ Partitioned
    /\ opts[Root].MaxCount = 100 /\ Last(trace).rows = 100
    /\ Length(opts[Root]) = 500 * TicksPerSecond
    /\ opts[3].EarliestTime = 200 * TicksPerSecond /\ opts[3].LatestTime = 300 * TicksPerSecond

\* C22: the options of a sub-search are the parent's but for EarliestTime and
\* LatestTime, which are the bounds of the sub-search's own partition index,
\* and the fan-out leaves the parent's options as they were.
C22_OptionsCopied ==
    /\ [](Partitioned =>
            \A c \in Children :
                /\ opts[c].MaxCount = opts[Root].MaxCount
                /\ opts[c].AllowPartition = opts[Root].AllowPartition
                /\ opts[c].UseEarliestTime = opts[Root].UseEarliestTime
                /\ opts[c].UseLatestTime = opts[Root].UseLatestTime
                /\ opts[c].EarliestTime = StartT(opts[Root], c - 1)
                /\ opts[c].LatestTime = StartT(opts[Root], c - 1) + PartitionStep(opts[Root])
                /\ \A d \in Children : (d # c /\ PartitionStep(opts[Root]) # 0)
                       => opts[d].EarliestTime # opts[c].EarliestTime)
    /\ [][pc[Root] = "fetch" => opts'[Root] = opts[Root]]_vars

\* C22 witness: a window of 7 seconds with MaxCount 2 has been partitioned.
C22_Witness ==
    /\ Partitioned
    /\ opts[Root].MaxCount = 2 /\ Length(opts[Root]) = 7 * TicksPerSecond
    /\ opts[2].MaxCount = 2 /\ opts[2].EarliestTime = 2 * TicksPerSecond

\* C23: the requests of one Search are a creation, then status polls, then
\* at most one result fetch: a poll only after the creation succeeded, the
\* fetch only right after a poll that reported done and not failed, and no
\* poll after a poll that reported done or failed.
C23_RequestOrder ==
    \A k \in 1 .. Len(trace) :
        /\ (trace[k].req = "create") <=> (k = 1)
        /\ k >= 2 => trace[1].ok
        /\ trace[k].req = "results"
           => /\ k = Len(trace) /\ k >= 3
              /\ trace[k - 1].req = "status" /\ trace[k - 1].ok
              /\ trace[k - 1].isDone /\ ~trace[k - 1].isFailed
        /\ (trace[k].req = "status" /\ trace[k].ok /\ (trace[k].isDone \/ trace[k].isFailed))
           => (k = Len(trace) \/ trace[k + 1].req = "results")
        /\ (trace[k].req = "status" /\ k < Len(trace) /\ trace[k + 1].req = "status")
           => Running(trace[k])

\* C23 witness: a creation, a poll of a running job, a poll of a done job,
\* the fetch.
C23_Witness ==
    /\ Len(trace) = 4
    /\ trace[1].req = "create" /\ Running(trace[2])
    /\ trace[3].req = "status" /\ trace[3].isDone
    /\ trace[4].req = "results"

\* C24: with session-key authentication and no valid session key, signing a
\* request terminates: no refresh of the session key starts while another
\* is in progress, the stack never overflows, at most one login goes out,
\* and httpCall either returns an error with the original request unsent or
\* sends it with a non-empty session key in its Authorization header.
C24_SigningTerminates ==
    /\ \A k \in DOMAIN stack : stack[k].fn # "stack overflow"
    /\ Cardinality({k \in DOMAIN stack : stack[k].fn = "getSessionKey"}) <= 1
    /\ Cardinality({k \in DOMAIN wire : wire[k].endpoint = LoginEndpoint}) <= 1
    /\ (/\ Len(stack) = 1
        /\ stack[1].at = "return"
        /\ stack[1].c.AuthType = AuthorizationTokenAuth
        /\ SessionKeyStale(stack[1].c))
       => \/ /\ ~stack[1].ret.err.nil
             /\ \A k \in DOMAIN wire : wire[k].endpoint # stack[1].endpoint
          \/ \E k \in DOMAIN wire :
                /\ wire[k].endpoint = stack[1].endpoint
                /\ wire[k].header[1] = "Splunk"
                /\ wire[k].header[2] # NoKey

====
